---- MODULE Spec2Model ----
(***************************************************************************)
(* logwatch (src/src/main.rs): an inotify-driven tail of /var/log/auth.log *)
(* that counts authentication-failure lines per pattern and prints an      *)
(* alert when three have accumulated.                                      *)
(*                                                                         *)
(* The model has three parts:                                              *)
(*   - the file system (inodes, the watched path) and an external writer / *)
(*     log rotator acting on it;                                           *)
(*   - the kernel side of inotify: the registered watches and the event    *)
(*     queue, with the kernel's merging of an event equal to the tail;     *)
(*   - the program: startup, the event loop of main() and the per-line     *)
(*     matching, one action per system call or loop iteration.             *)
(* Files are sequences of bytes; a byte is a one-symbol string.  The two   *)
(* failure literals are shortened to two bytes each, sharing their first   *)
(* byte as the real ones share the prefix "pam_unix(s".                    *)
(***************************************************************************)
EXTENDS Integers, Sequences, FiniteSets, TLC

(***************************************************************************)
(* Bounds of the model.                                                    *)
(***************************************************************************)
MaxFileLen == 9
\* number of inodes the watched name can be bound to over a run
MaxInodes == 3
\* events the kernel queue holds before the environment is held back
MaxQueue == 3
\* the clock stops advancing here
MaxTime == 302

(***************************************************************************)
(* Program constants.                                                      *)
(***************************************************************************)
\* main.rs:130, 139   auth_time.len() >= 3
Threshold == 3
\* main.rs:152, 158   Duration::from_secs(300)
WindowSecs == 300
\* main.rs:91         let mut buffer = [0; 32]
BufferSize == 32

NL == "\n"
\* main.rs:65   the watched file name (Watched::file) and other names of
\* the same directory, one shorter than 16 bytes and one of 16 bytes
File == "auth.log"
Other == "syslog"
LongOther == "alternatives.log"
OtherNames == {Other, LongOther}
NoName == ""

\* main.rs:34-37
Auth == {"Sudo", "System"}

\* main.rs:72-79   AuthFailure::message of each pattern
Message(a) == IF a = "Sudo" THEN <<"s", "u">> ELSE <<"s", "y">>

(***************************************************************************)
(* Pure helpers.                                                           *)
(***************************************************************************)
\* String::from_utf8_lossy: an invalid byte becomes U+FFFD, every other
\* byte is kept
FromUtf8Lossy(bytes) ==
    [i \in 1..Len(bytes) |-> IF bytes[i] = "ff" THEN "fffd" ELSE bytes[i]]

\* str::contains
Contains(s, lit) ==
    \E i \in 1..(Len(s) - Len(lit) + 1) : SubSeq(s, i, i + Len(lit) - 1) = lit

MatchesAny(a, line) ==
    \E b \in Auth : Contains(FromUtf8Lossy(line), Message(b))

\* main.rs:126-127, 135-136
Matches(a, line) == Contains(FromUtf8Lossy(line), Message(a))

\* BufRead::read_until(b'\n') on the bytes data of which r are consumed:
\* the bytes up to and including the next newline, or all that are left;
\* nothing when none is left
ReadUntil(data, r) ==
    IF r >= Len(data) THEN <<>>
    ELSE LET nls == {k \in (r + 1)..Len(data) : data[k] = NL}
             stop == IF nls = {} THEN Len(data)
                     ELSE CHOOSE k \in nls : \A j \in nls : k <= j
         IN  SubSeq(data, r + 1, stop)

\* Instant::elapsed, in whole seconds
Elapsed(t, clock) == clock - t

FreshStrict(t, clock) == Elapsed(t, clock) < WindowSecs

\* main.rs:152, 158   the filter of the clean-up
Fresh(t, clock) == Elapsed(t, clock) <= WindowSecs

\* main.rs:149-159   one tracker after the clean-up
CleanUp(times, clock) == SelectSeq(times, LAMBDA t : Fresh(t, clock))

\* main.rs:53-55   FailureMap::add
Add(times, clock) == Append(times, clock)

ThresholdReachedOffByOne(times) == Len(times) > Threshold

\* main.rs:130, 139
ThresholdReached(times) == Len(times) >= Threshold

AfterLineNoReset(a, line, times, clock) ==
    IF Matches(a, line) THEN Add(times, clock) ELSE times

\* main.rs:128-134, 137-143   one pattern's tracker after a line
AfterLine(a, line, times, clock) ==
    IF Matches(a, line)
    THEN IF ThresholdReached(Add(times, clock)) THEN <<>> ELSE Add(times, clock)
    ELSE times

\* main.rs:130-131, 139-140   whether the line makes the pattern print
Fires(a, line, times, clock) ==
    Matches(a, line) /\ ThresholdReached(Add(times, clock))

\* main.rs:131, 140   how many alert lines the line makes the pattern print
Printed(a, line, times, clock) == IF Fires(a, line, times, clock) THEN 1 ELSE 0

\* size in bytes of an event in the read buffer: the 16-byte header plus
\* the name with its terminating 0, padded to a multiple of 16
EventSize(e) ==
    IF e.name = NoName THEN 16 ELSE IF e.name = LongOther THEN 48 ELSE 32

\* how many events from the head of q fit in room bytes
RECURSIVE FitCount(_, _)
FitCount(q, room) ==
    IF q = <<>> \/ EventSize(Head(q)) > room THEN 0
    ELSE 1 + FitCount(Tail(q), room - EventSize(Head(q)))

\* the kernel appends an event unless it equals the last one queued
Enqueue(q, e) == IF q # <<>> /\ q[Len(q)] = e THEN q ELSE Append(q, e)

RECURSIVE EnqueueAll(_, _)
EnqueueAll(q, es) ==
    IF es = <<>> THEN q ELSE EnqueueAll(Enqueue(q, Head(es)), Tail(es))

Event(wd, flag, name) == [wd |-> wd, mask |-> {flag}, name |-> name]

DirWd == 1

(***************************************************************************)
(* State.                                                                  *)
(***************************************************************************)
VARIABLES
    \* file system
    ino,          \* inode -> [st, data]; st: free, linked (at the watched
                  \* path), moved (renamed away), unlinked, dead
    \* kernel side of the inotify instance
    dirw,         \* the directory watch is registered
    kwatch,       \* file watches: set of [wd, ino]
    nextwd,       \* next watch descriptor the kernel hands out
    kq,           \* queued events
    \* the program
    pc,           \* start, probe, watch_dir, watch_file, wait, add_watch,
                  \* open, read, set_pos, failed
    failed,       \* the call whose error ended the process ("" while alive)
    pos,          \* Watched::pos
    file_watch,   \* the WatchDescriptor held in file_watch
    ubuf,         \* events read into buffer and not yet yielded
    event,        \* the event being handled
    mlen,         \* metadata.len()
    fd,           \* inode open in reader (0: none)
    rpos,         \* offset of reader: the bytes it has given out
    rbuf,         \* bytes reader has read from the file and not given out
    linebuffer,   \* the bytes of the line read_until is putting together
    auth_time,    \* Auth -> FailureMap::auth_time
    \* time
    now,
    \* observation
    alerts,       \* Auth -> number of alerts printed
    lastLine,     \* what the last read_until returned and what it caused
    seen,         \* Auth -> times of add() since the pattern last printed
    nscan,        \* inode -> per byte: n, how often read_until returned
                  \* it, and end, whether a returned line ended with it
    rvalid,       \* how many of the last bytes of linebuffer and rbuf the
                  \* file still holds (all, unless it was truncated)
    old,          \* how many leading bytes of the file at the path were
                  \* there when main.rs:68 measured it and are there still
    budget        \* what the environment may still do

vars == <<ino, dirw, kwatch, nextwd, kq, pc, failed, pos, file_watch, ubuf,
          event, mlen, fd, rpos, rbuf, linebuffer, rvalid, auth_time, now,
          alerts, lastLine, seen, nscan, old, budget>>

fsVars == <<ino, nscan, old>>
kernelVars == <<dirw, kwatch, nextwd, kq>>
trackVars == <<auth_time, alerts, lastLine, seen>>
bufVars == <<rbuf, linebuffer, rvalid>>
readVars == <<mlen, fd, rpos, bufVars>>

Inodes == 1..MaxInodes

\* the inode the watched path names, 0 when the path does not exist
PathIno ==
    IF \E i \in Inodes : ino[i].st = "linked"
    THEN CHOOSE i \in Inodes : ino[i].st = "linked"
    ELSE 0

\* the watch descriptor registered on inode i, 0 when there is none
WdOf(i) ==
    IF \E w \in kwatch : w.ino = i
    THEN (CHOOSE w \in kwatch : w.ino = i).wd
    ELSE 0

\* events the kernel queues for the file watch on inode i
FileEvents(i, flag) ==
    IF WdOf(i) # 0 THEN <<Event(WdOf(i), flag, NoName)>> ELSE <<>>

\* events the kernel queues for the directory watch
DirEvents(flag, name) ==
    IF dirw THEN <<Event(DirWd, flag, name)>> ELSE <<>>

NoLine ==
    [line |-> <<>>, hit |-> {}, fired |-> [a \in Auth |-> 0],
     seen |-> [a \in Auth |-> <<>>]]

NoEvent == [wd |-> 0, mask |-> {}, name |-> NoName]

(***************************************************************************)
(* The environment: the process writing the log, the rotation tool, other  *)
(* files of the directory, the kernel releasing an unlinked inode, time.   *)
(***************************************************************************)
SudoLine == <<"s", "u", NL>>
SystemLine == <<"s", "y", NL>>
BothLine == <<"s", "u", "s", "y", NL>>
JunkLine == <<"ff", NL>>
\* the start of a line, matching the sudo pattern, written ahead of the
\* rest of the line
SudoPiece == <<"s", "u">>

\* a byte no read_until has returned
Unread == [n |-> 0, end |-> FALSE]

\* the environment is followed while the process lives
Running == pc # "failed"

\* write(2) of chunk at the end of the file at the watched path
WriterAppend(chunk) ==
    /\ Running
    /\ PathIno # 0
    /\ budget.app > 0
    /\ Len(ino[PathIno].data) + Len(chunk) <= MaxFileLen
    /\ Len(kq) < MaxQueue
    /\ ino' = [ino EXCEPT ![PathIno].data = @ \o chunk]
    /\ nscan' = [nscan EXCEPT ![PathIno] = @ \o [k \in 1..Len(chunk) |-> Unread]]
    /\ kq' = EnqueueAll(kq, FileEvents(PathIno, "MODIFY"))
    /\ budget' = [budget EXCEPT !.app = @ - 1]
    /\ UNCHANGED <<old, dirw, kwatch, nextwd, pc, failed, pos, file_watch,
                   ubuf, event, readVars, trackVars, now>>

\* truncate(2) (or open with O_TRUNC) of the file at the watched path to
\* length 0; the kernel queues IN_MODIFY even when the file is already empty
Truncate ==
    /\ Running
    /\ PathIno # 0
    /\ budget.trunc > 0
    /\ Len(kq) < MaxQueue
    /\ ino' = [ino EXCEPT ![PathIno].data = <<>>]
    /\ nscan' = [nscan EXCEPT ![PathIno] = <<>>]
    /\ kq' = EnqueueAll(kq, FileEvents(PathIno, "MODIFY"))
    /\ budget' = [budget EXCEPT !.trunc = @ - 1]
    /\ old' = 0
    /\ rvalid' = IF fd = PathIno THEN 0 ELSE rvalid
    /\ UNCHANGED <<dirw, kwatch, nextwd, pc, failed, pos, file_watch, ubuf,
                   event, mlen, fd, rpos, rbuf, linebuffer, trackVars, now>>

\* rename(2) of the watched path to another name of the directory: the
\* directory watch sees MOVED_FROM, then the file watch sees MOVE_SELF
Rename ==
    /\ Running
    /\ PathIno # 0
    /\ budget.rot > 0
    /\ Len(kq) + 2 <= MaxQueue
    /\ ino' = [ino EXCEPT ![PathIno].st = "moved"]
    /\ kq' = EnqueueAll(kq, DirEvents("MOVED_FROM", File)
                            \o FileEvents(PathIno, "MOVE_SELF"))
    /\ budget' = [budget EXCEPT !.rot = @ - 1]
    /\ old' = 0
    /\ UNCHANGED <<nscan, dirw, kwatch, nextwd, pc, failed, pos, file_watch,
                   ubuf, event, readVars, trackVars, now>>

\* unlink(2) of the watched path: neither watch asks for an event of it
Unlink ==
    /\ Running
    /\ PathIno # 0
    /\ budget.rot > 0
    /\ ino' = [ino EXCEPT ![PathIno].st = "unlinked"]
    /\ budget' = [budget EXCEPT !.rot = @ - 1]
    /\ old' = 0
    /\ UNCHANGED <<nscan, kernelVars, pc, failed, pos, file_watch, ubuf,
                   event, readVars, trackVars, now>>

\* the kernel frees an unlinked inode once nobody holds it open: its watch
\* goes away and IGNORED is queued for it
Release(i) ==
    /\ Running
    /\ ino[i].st = "unlinked"
    /\ fd # i
    /\ Len(kq) < MaxQueue
    /\ ino' = [ino EXCEPT ![i] = [st |-> "dead", data |-> <<>>]]
    /\ nscan' = [nscan EXCEPT ![i] = <<>>]
    /\ kq' = EnqueueAll(kq, FileEvents(i, "IGNORED"))
    /\ kwatch' = {w \in kwatch : w.ino # i}
    /\ UNCHANGED <<old, dirw, nextwd, pc, failed, pos, file_watch, ubuf,
                   event, readVars, trackVars, now, budget>>

\* a new, empty file appears under the watched name
Create ==
    /\ Running
    /\ PathIno = 0
    /\ \E i \in Inodes : ino[i].st = "free"
    /\ Len(kq) < MaxQueue
    /\ LET i == CHOOSE j \in Inodes :
                    ino[j].st = "free" /\ \A k \in Inodes : ino[k].st = "free" => j <= k
       IN  ino' = [ino EXCEPT ![i] = [st |-> "linked", data |-> <<>>]]
    /\ kq' = EnqueueAll(kq, DirEvents("CREATE", File))
    /\ UNCHANGED <<nscan, old, dirw, kwatch, nextwd, pc, failed, pos,
                   file_watch, ubuf, event, readVars, trackVars, now, budget>>

\* a file with another name is created in the watched directory
CreateOther(name) ==
    /\ Running
    /\ budget.other > 0
    /\ dirw
    /\ Len(kq) < MaxQueue
    /\ kq' = EnqueueAll(kq, DirEvents("CREATE", name))
    /\ budget' = [budget EXCEPT !.other = @ - 1]
    /\ UNCHANGED <<fsVars, dirw, kwatch, nextwd, pc, failed, pos, file_watch,
                   ubuf, event, readVars, trackVars, now>>

\* the event stream yields an event of the directory watch for the watched
\* name with the given flags, whatever the kernel would combine
Deliver(mask) ==
    /\ Running
    /\ budget.other > 0
    /\ dirw
    /\ Len(kq) < MaxQueue
    /\ kq' = Enqueue(kq, [wd |-> DirWd, mask |-> mask, name |-> File])
    /\ budget' = [budget EXCEPT !.other = @ - 1]
    /\ UNCHANGED <<fsVars, dirw, kwatch, nextwd, pc, failed, pos, file_watch,
                   ubuf, event, readVars, trackVars, now>>

\* d seconds pass
Tick(d, limit) ==
    /\ Running
    /\ now + d <= limit
    /\ now' = now + d
    /\ UNCHANGED <<fsVars, kernelVars, pc, failed, pos, file_watch, ubuf,
                   event, readVars, trackVars, budget>>

(***************************************************************************)
(* The program.                                                            *)
(***************************************************************************)
ExitSwallowed(call) ==
    /\ pc' = "wait"
    /\ failed' = call
    /\ dirw' = dirw
    /\ kwatch' = kwatch
    /\ kq' = kq
    /\ ubuf' = IF ubuf = <<>> THEN ubuf ELSE Tail(ubuf)
    /\ event' = NoEvent
    /\ fd' = 0

\* an Err leaves main through `?`: the process ends and, with it, its
\* inotify instance (watches, queued events) and its open file
Exit(call) ==
    /\ pc' = "failed"
    /\ failed' = call
    /\ dirw' = FALSE
    /\ kwatch' = {}
    /\ kq' = <<>>
    /\ ubuf' = <<>>
    /\ event' = NoEvent
    /\ fd' = 0

\* Inotify::add_watch(path): the descriptor of the watch on the inode the
\* path names, a new one unless the inode is watched already
AddWatchWd == IF WdOf(PathIno) # 0 THEN WdOf(PathIno) ELSE nextwd

\* main.rs:65-67   Watched::new (pos 0), then path.is_file()
StartIsFile ==
    /\ pc = "start"
    /\ pc' = IF PathIno # 0 THEN "probe" ELSE "watch_dir"
    /\ UNCHANGED <<fsVars, kernelVars, failed, pos, file_watch, ubuf, event,
                   readVars, trackVars, now, budget>>

StartProbeFromZero ==
    /\ pc = "probe"
    /\ IF PathIno = 0
       THEN /\ Exit("start_metadata")
            /\ UNCHANGED <<fsVars, nextwd, pos, file_watch, mlen, rpos,
                           bufVars, trackVars, now, budget>>
       ELSE /\ pos' = 0
            /\ old' = Len(ino[PathIno].data)
            /\ pc' = "watch_dir"
            /\ UNCHANGED <<ino, nscan, kernelVars, failed, file_watch, ubuf,
                           event, readVars, trackVars, now, budget>>

\* main.rs:68-69   fs::metadata(path)?, which fails when the path is gone
\* since is_file, then set_pos(meta.len())
StartProbe ==
    /\ pc = "probe"
    /\ IF PathIno = 0
       THEN /\ Exit("start_metadata")
            /\ UNCHANGED <<fsVars, nextwd, pos, file_watch, mlen, rpos,
                           bufVars, trackVars, now, budget>>
       ELSE /\ pos' = Len(ino[PathIno].data)
            /\ old' = Len(ino[PathIno].data)
            /\ pc' = "watch_dir"
            /\ UNCHANGED <<ino, nscan, kernelVars, failed, file_watch, ubuf,
                           event, readVars, trackVars, now, budget>>

\* main.rs:84-86   the directory watch
StartWatchDir ==
    /\ pc = "watch_dir"
    /\ dirw' = TRUE
    /\ nextwd' = DirWd + 1
    /\ pc' = "watch_file"
    /\ UNCHANGED <<fsVars, kwatch, kq, failed, pos, file_watch, ubuf, event,
                   readVars, trackVars, now, budget>>

\* main.rs:88-92   the file watch; add_watch fails when the path is absent
StartWatchFile ==
    /\ pc = "watch_file"
    /\ IF PathIno = 0
       THEN /\ Exit("start_add_watch")
            /\ UNCHANGED <<fsVars, nextwd, pos, file_watch, mlen, rpos,
                           bufVars, trackVars, now, budget>>
       ELSE /\ file_watch' = AddWatchWd
            /\ kwatch' = kwatch \cup {[wd |-> AddWatchWd, ino |-> PathIno]}
            /\ nextwd' = nextwd + 1
            /\ pc' = "wait"
            /\ UNCHANGED <<fsVars, dirw, kq, failed, pos, ubuf, event,
                           readVars, trackVars, now, budget>>

\* main.rs:96   stream.next() with nothing buffered: one read(2) moves as
\* many queued events as fit from the kernel into buffer
Poll ==
    /\ pc = "wait"
    /\ ubuf = <<>>
    /\ kq # <<>>
    /\ FitCount(kq, BufferSize) > 0
    /\ LET k == FitCount(kq, BufferSize)
       IN  /\ ubuf' = SubSeq(kq, 1, k)
           /\ kq' = SubSeq(kq, k + 1, Len(kq))
    /\ UNCHANGED <<fsVars, dirw, kwatch, nextwd, pc, failed, pos, file_watch,
                   event, readVars, trackVars, now, budget>>

\* main.rs:96-97   stream.next() with nothing buffered while the first
\* queued event is larger than buffer: read(2) fails (EINVAL), the event
\* stays queued, the stream yields an Err, which the loop skips, and
\* stream.next() is called again
PollError ==
    /\ pc = "wait"
    /\ ubuf = <<>>
    /\ kq # <<>>
    /\ FitCount(kq, BufferSize) = 0
    /\ UNCHANGED vars

\* main.rs:98   the event is about the watched name
IsDirEvent(e) == e.name = File

\* main.rs:98-101   MOVED_FROM of the watched name: nothing
EvMovedFrom ==
    /\ pc = "wait"
    /\ ubuf # <<>>
    /\ IsDirEvent(Head(ubuf))
    /\ "MOVED_FROM" \in Head(ubuf).mask
    /\ ubuf' = Tail(ubuf)
    /\ UNCHANGED <<fsVars, kernelVars, pc, failed, pos, file_watch, event,
                   readVars, trackVars, now, budget>>

EvCreateFirst ==
    /\ pc = "wait"
    /\ ubuf # <<>>
    /\ IsDirEvent(Head(ubuf))
    /\ "CREATE" \in Head(ubuf).mask
    /\ IF file_watch \notin {w.wd : w \in kwatch}
       THEN /\ Exit("rm_watch")
            /\ UNCHANGED <<fsVars, nextwd, pos, file_watch, mlen, rpos,
                           bufVars, trackVars, now, budget>>
       ELSE /\ kwatch' = {w \in kwatch : w.wd # file_watch}
            /\ kq' = Enqueue(kq, Event(file_watch, "IGNORED", NoName))
            /\ pos' = 0
            /\ ubuf' = Tail(ubuf)
            /\ event' = Head(ubuf)
            /\ pc' = "add_watch"
            /\ UNCHANGED <<fsVars, dirw, nextwd, failed, file_watch,
                           readVars, trackVars, now, budget>>

EvCreateKeepWatch ==
    /\ pc = "wait"
    /\ ubuf # <<>>
    /\ IsDirEvent(Head(ubuf))
    /\ "MOVED_FROM" \notin Head(ubuf).mask
    /\ "CREATE" \in Head(ubuf).mask
    /\ pos' = 0
    /\ ubuf' = Tail(ubuf)
    /\ event' = Head(ubuf)
    /\ pc' = "add_watch"
    /\ UNCHANGED <<fsVars, kernelVars, failed, file_watch, readVars,
                   trackVars, now, budget>>

\* main.rs:102-105   CREATE of the watched name: rm_watch, set_pos(0).
\* rm_watch fails (EINVAL) when the kernel no longer knows the descriptor
EvCreate ==
    /\ pc = "wait"
    /\ ubuf # <<>>
    /\ IsDirEvent(Head(ubuf))
    /\ "MOVED_FROM" \notin Head(ubuf).mask
    /\ "CREATE" \in Head(ubuf).mask
    /\ IF file_watch \notin {w.wd : w \in kwatch}
       THEN /\ Exit("rm_watch")
            /\ UNCHANGED <<fsVars, nextwd, pos, file_watch, mlen, rpos,
                           bufVars, trackVars, now, budget>>
       ELSE /\ kwatch' = {w \in kwatch : w.wd # file_watch}
            /\ kq' = Enqueue(kq, Event(file_watch, "IGNORED", NoName))
            /\ pos' = 0
            /\ ubuf' = Tail(ubuf)
            /\ event' = Head(ubuf)
            /\ pc' = "add_watch"
            /\ UNCHANGED <<fsVars, dirw, nextwd, failed, file_watch,
                           readVars, trackVars, now, budget>>

\* main.rs:107-108   add_watch on the path; fails when the path is absent
AddWatch ==
    /\ pc = "add_watch"
    /\ IF PathIno = 0
       THEN /\ Exit("add_watch")
            /\ UNCHANGED <<fsVars, nextwd, pos, file_watch, mlen, rpos,
                           bufVars, trackVars, now, budget>>
       ELSE /\ file_watch' = AddWatchWd
            /\ kwatch' = kwatch \cup {[wd |-> AddWatchWd, ino |-> PathIno]}
            /\ nextwd' = IF WdOf(PathIno) # 0 THEN nextwd ELSE nextwd + 1
            /\ event' = NoEvent
            /\ pc' = "wait"
            /\ UNCHANGED <<fsVars, dirw, kq, failed, pos, ubuf, readVars,
                           trackVars, now, budget>>

\* main.rs:110-113   an event without the watched name carrying MOVE_SELF
EvMoveSelf ==
    /\ pc = "wait"
    /\ ubuf # <<>>
    /\ ~IsDirEvent(Head(ubuf))
    /\ "MOVE_SELF" \in Head(ubuf).mask
    /\ ubuf' = Tail(ubuf)
    /\ UNCHANGED <<fsVars, kernelVars, pc, failed, pos, file_watch, event,
                   readVars, trackVars, now, budget>>

\* main.rs:110-115   any other event without the watched name: the append
\* branch, starting with fs::metadata(path)
EvRead ==
    /\ pc = "wait"
    /\ ubuf # <<>>
    /\ ~IsDirEvent(Head(ubuf))
    /\ "MOVE_SELF" \notin Head(ubuf).mask
    /\ IF PathIno = 0
       THEN /\ Exit("metadata")
            /\ UNCHANGED <<fsVars, nextwd, pos, file_watch, mlen, rpos,
                           bufVars, trackVars, now, budget>>
       ELSE /\ mlen' = Len(ino[PathIno].data)
            /\ ubuf' = Tail(ubuf)
            /\ event' = Head(ubuf)
            /\ pc' = "open"
            /\ UNCHANGED <<fsVars, kernelVars, failed, pos, file_watch, fd,
                           rpos, bufVars, trackVars, now, budget>>

\* main.rs:116-118   File::open(path), BufReader::new (nothing buffered),
\* seek(Start(pos)); a seek past the end of a file succeeds
Open ==
    /\ pc = "open"
    /\ IF PathIno = 0
       THEN /\ Exit("open")
            /\ UNCHANGED <<fsVars, nextwd, pos, file_watch, mlen, rpos,
                           bufVars, trackVars, now, budget>>
       ELSE /\ fd' = PathIno
            /\ rpos' = pos
            /\ pc' = "read"
            /\ UNCHANGED <<fsVars, kernelVars, failed, pos, file_watch, ubuf,
                           event, mlen, bufVars, trackVars, now, budget>>

\* the record of a file's bytes after read_until returned n bytes from
\* offset from: each is counted (up to 2), the last one ends a line
Scanned(bytes, from, n) ==
    [k \in 1..Len(bytes) |->
        IF k > from /\ k <= from + n
        THEN [n |-> IF bytes[k].n < 2 THEN bytes[k].n + 1 ELSE 2,
              end |-> bytes[k].end \/ k = from + n]
        ELSE bytes[k]]

\* read(2) at offset off of a file holding data, into the buffer of the
\* BufReader (8 KiB, more than a file of the model holds): every byte from
\* off to the end of the file, nothing at or past the end
FileRead(data, off) ==
    IF off >= Len(data) THEN <<>> ELSE SubSeq(data, off + 1, Len(data))

Min(x, y) == IF x <= y THEN x ELSE y

\* main.rs:120-145   one step of the inner loop.  read_until takes bytes
\* from the buffer of reader, which reads the file only when it holds
\* nothing: up to a newline the line is complete; without one the bytes go
\* to linebuffer and the file is read again; at the end of the file what
\* linebuffer holds is the line, and with nothing in it the loop is left.
\* A complete line is matched against both patterns.
ReadLine ==
    /\ pc = "read"
    /\ LET fill == rbuf = <<>>
           avail == IF fill THEN FileRead(ino[fd].data, rpos) ELSE rbuf
           rv == IF fill THEN rvalid + Len(avail) ELSE rvalid
           taken == ReadUntil(avail, 0)
           rest == SubSeq(avail, Len(taken) + 1, Len(avail))
           line == linebuffer \o taken
           left == Min(rv, Len(rest))
       IN  IF avail = <<>> /\ linebuffer = <<>>
           THEN /\ pc' = "set_pos"
                /\ UNCHANGED <<rpos, bufVars, trackVars, nscan>>
           ELSE IF avail # <<>> /\ taken[Len(taken)] # NL
           THEN /\ pc' = "read"
                /\ rpos' = rpos + Len(taken)
                /\ rbuf' = <<>>
                /\ linebuffer' = line
                /\ rvalid' = rv
                /\ UNCHANGED <<trackVars, nscan>>
           ELSE /\ pc' = "read"
                /\ rpos' = rpos + Len(taken)
                /\ rbuf' = rest
                /\ linebuffer' = <<>>
                /\ rvalid' = left
                /\ auth_time' =
                       [a \in Auth |-> AfterLine(a, line, auth_time[a], now)]
                /\ alerts' =
                       [a \in Auth |->
                           alerts[a] + Printed(a, line, auth_time[a], now)]
                /\ lastLine' =
                       [line |-> line,
                        hit |-> {a \in Auth : Matches(a, line)},
                        fired |-> [a \in Auth |->
                                      Printed(a, line, auth_time[a], now)],
                        seen |-> [a \in Auth |->
                                     IF Matches(a, line)
                                     THEN Append(seen[a], now) ELSE seen[a]]]
                /\ seen' =
                       [a \in Auth |->
                           IF Fires(a, line, auth_time[a], now) THEN <<>>
                           ELSE IF Matches(a, line) THEN Append(seen[a], now)
                           ELSE seen[a]]
                /\ nscan' = [nscan EXCEPT ![fd] =
                                 Scanned(@, rpos + Len(taken) - (rv - left),
                                         rv - left)]
    /\ UNCHANGED <<ino, old, kernelVars, failed, pos, file_watch, ubuf,
                   event, mlen, fd, now, budget>>

\* main.rs:146-160   set_pos(metadata.len()), the clean-up of both
\* trackers, and the end of the block that owns the reader
Finish ==
    /\ pc = "set_pos"
    /\ pos' = mlen
    /\ auth_time' = [a \in Auth |-> CleanUp(auth_time[a], now)]
    /\ fd' = 0
    /\ event' = NoEvent
    /\ lastLine' = NoLine
    /\ mlen' = 0
    /\ rpos' = 0
    /\ pc' = "wait"
    /\ UNCHANGED <<fsVars, kernelVars, failed, file_watch, ubuf, bufVars,
                   alerts, seen, now, budget>>

\* main.rs:116-122   File::open, seek or read_until returns an Err for a
\* reason other than a missing path (EACCES, EIO, ...)
ReadError ==
    /\ pc \in {"open", "read"}
    /\ \E call \in (IF pc = "open" THEN {"open", "seek"} ELSE {"read_until"}) :
           Exit(call)
    /\ UNCHANGED <<fsVars, nextwd, pos, file_watch, mlen, rpos, bufVars, trackVars,
                   now, budget>>

(***************************************************************************)
(* Specifications.                                                         *)
(***************************************************************************)
\* what the environment does at most, per run
MaxAppends == 2
MaxRotations == 1
MaxTruncates == 1
MaxOthers == 1

\* the state main() starts in, with the file system as given
InitWith(files, b) ==
    /\ ino = files
    /\ nscan = [i \in Inodes |-> [k \in 1..Len(files[i].data) |-> Unread]]
    /\ dirw = FALSE
    /\ kwatch = {}
    /\ nextwd = DirWd
    /\ kq = <<>>
    /\ pc = "start"
    /\ failed = ""
    /\ pos = 0
    /\ file_watch = 0
    /\ ubuf = <<>>
    /\ event = NoEvent
    /\ mlen = 0
    /\ fd = 0
    /\ rpos = 0
    /\ rbuf = <<>>
    /\ linebuffer = <<>>
    /\ rvalid = 0
    /\ auth_time = [a \in Auth |-> <<>>]
    /\ now = 0
    /\ alerts = [a \in Auth |-> 0]
    /\ lastLine = NoLine
    /\ seen = [a \in Auth |-> <<>>]
    /\ old = 0
    /\ budget = b

NoFile == [i \in Inodes |-> [st |-> "free", data |-> <<>>]]

FileWith(content) ==
    [i \in Inodes |-> IF i = 1 THEN [st |-> "linked", data |-> content]
                      ELSE [st |-> "free", data |-> <<>>]]

\* the steps of main()
Program ==
    \/ StartIsFile
    \/ StartProbe
    \/ StartWatchDir
    \/ StartWatchFile
    \/ Poll
    \/ EvMovedFrom
    \/ EvCreate
    \/ AddWatch
    \/ EvMoveSelf
    \/ EvRead
    \/ Open
    \/ ReadLine
    \/ Finish

TickSteps == {150, 151}

\* The whole model: the log exists or not at startup; it is appended to,
\* truncated and rotated; other files appear in the directory.  Time stands
\* still (SpecWindow lets it pass).
Init ==
    \E files \in {NoFile, FileWith(<<>>), FileWith(SudoLine)} :
        InitWith(files, [app |-> MaxAppends, rot |-> MaxRotations,
                         trunc |-> MaxTruncates, other |-> MaxOthers])

Next ==
    \/ Program
    \/ \E c \in {SudoLine, SystemLine} : WriterAppend(c)
    \/ Truncate
    \/ Rename
    \/ Unlink
    \/ \E i \in Inodes : Release(i)
    \/ Create
    \/ \E n \in OtherNames : CreateOther(n)
    \/ PollError

Spec == Init /\ [][Next]_vars

\* The steps of main() once the file watch stands and the file stays in
\* place: nothing fails, no rotation is seen.
Tailing ==
    \/ StartIsFile
    \/ StartProbe
    \/ StartWatchDir
    \/ StartWatchFile
    \/ Poll
    \/ EvRead
    \/ Open
    \/ ReadLine
    \/ Finish

\* startup is over: the loop of main.rs:96 runs
Started == pc \notin {"start", "probe", "watch_dir", "watch_file"}

\* the loop waits and nothing is left to deliver
Quiescent == pc = "wait" /\ ubuf = <<>> /\ kq = <<>>

\* The log stays in place and, once the loop runs, is only appended to, a
\* line or a piece of a line at a time.  Time passes, in steps of minutes,
\* while the loop waits in stream.next(); handling an event takes no time
\* at that scale.
InitWindow ==
    InitWith(FileWith(<<>>), [app |-> MaxAppends + 1, rot |-> 0, trunc |-> 0,
                              other |-> MaxOthers])

NextWindow ==
    \/ Tailing
    \/ Started /\ \E c \in {SudoLine, SudoPiece} : WriterAppend(c)
    \/ Started /\ \E n \in OtherNames : CreateOther(n)
    \/ PollError
    \/ pc = "wait" /\ \E d \in TickSteps : Tick(d, MaxTime)

SpecWindow == InitWindow /\ [][NextWindow]_vars

\* The end-to-end scenario: the log starts empty, exactly Threshold sudo
\* lines are appended within E2ESeconds, other files may appear in the
\* directory, and every event is handled within the same seconds.
E2ESeconds == 2

InitE2E ==
    InitWith(FileWith(<<>>), [app |-> Threshold, rot |-> 0, trunc |-> 0,
                              other |-> MaxOthers + 1])

NextE2E ==
    \/ Tailing
    \/ Started /\ WriterAppend(SudoLine)
    \/ Started /\ \E n \in OtherNames : CreateOther(n)
    \/ PollError
    \/ Tick(1, E2ESeconds)

SpecE2E == InitE2E /\ [][NextE2E]_vars

\* Rotation: the log holds a line at startup and, once the loop runs, is
\* appended to and rotated, by rename or by unlink, then create.
InitRotate ==
    InitWith(FileWith(SudoLine), [app |-> MaxAppends + 1, rot |-> MaxRotations,
                                  trunc |-> 0, other |-> 0])

NextRotate ==
    \/ Program
    \/ Started /\ \E c \in {SudoLine, SystemLine} : WriterAppend(c)
    \/ Started /\ Rename
    \/ Started /\ Unlink
    \/ \E i \in Inodes : Release(i)
    \/ Create

SpecRotate == InitRotate /\ [][NextRotate]_vars

\* Truncation: the log holds a line at startup, stays in place and, once
\* the loop runs, is appended to and truncated.
InitTruncate ==
    InitWith(FileWith(SudoLine), [app |-> MaxAppends, rot |-> 0,
                                  trunc |-> MaxTruncates, other |-> 0])

NextTruncate ==
    \/ Tailing
    \/ Started /\ \E c \in {SudoLine, SystemLine} : WriterAppend(c)
    \/ Started /\ Truncate

SpecTruncate == InitTruncate /\ [][NextTruncate]_vars

\* Startup: the log is absent, empty, or holds a line, or a line and the
\* start of the next one; from the first instruction of main() on it is
\* appended to and truncated, and other files appear in the directory.
InitStartup ==
    \E files \in {NoFile, FileWith(<<>>), FileWith(SudoLine),
                  FileWith(SudoLine \o SudoPiece)} :
        InitWith(files, [app |-> MaxAppends, rot |-> 0,
                         trunc |-> MaxTruncates, other |-> MaxOthers])

NextStartup ==
    \/ Tailing
    \/ \E c \in {SudoLine, SystemLine} : WriterAppend(c)
    \/ Truncate
    \/ \E n \in OtherNames : CreateOther(n)
    \/ PollError

SpecStartup == InitStartup /\ [][NextStartup]_vars

\* Repeated rotation: the log is rotated more than once, by rename or by
\* unlink, then create, and appended to in between.
InitWatches ==
    InitWith(FileWith(<<>>), [app |-> MaxAppends, rot |-> MaxRotations + 1,
                              trunc |-> 0, other |-> 0])

NextWatches ==
    \/ Program
    \/ Started /\ WriterAppend(SudoLine)
    \/ Started /\ Rename
    \/ Started /\ Unlink
    \/ \E i \in Inodes : Release(i)
    \/ Create

SpecWatches == InitWatches /\ [][NextWatches]_vars

\* Failing calls: the log is absent or holds a line at startup, it is
\* appended to and rotated, and open, seek and read_until may fail.
InitFatal ==
    \E files \in {NoFile, FileWith(SudoLine)} :
        InitWith(files, [app |-> MaxAppends, rot |-> MaxRotations,
                         trunc |-> 0, other |-> 0])

NextFatal ==
    \/ Program
    \/ ReadError
    \/ WriterAppend(SudoLine)
    \/ Rename
    \/ Unlink
    \/ \E i \in Inodes : Release(i)
    \/ Create

SpecFatal == InitFatal /\ [][NextFatal]_vars

\* Rotation, with the loop of main() running whenever it can: a step of
\* the program that is possible is eventually taken (the process is
\* scheduled, and stream.next() returns once the kernel holds an event).
SpecLive == InitRotate /\ [][NextRotate]_vars /\ WF_vars(Program)

\* Dispatch: the log holds a line, is appended to and may be renamed away,
\* and the directory watch yields events for the watched name with any
\* combination of MOVED_FROM and CREATE.
DirFlags == {{"MOVED_FROM"}, {"CREATE"}, {"MOVED_FROM", "CREATE"}}

InitDispatch ==
    InitWith(FileWith(SudoLine), [app |-> MaxAppends, rot |-> MaxRotations,
                                  trunc |-> 0, other |-> MaxOthers])

NextDispatch ==
    \/ Program
    \/ Started /\ WriterAppend(SudoLine)
    \/ Started /\ Rename
    \/ Started /\ \E m \in DirFlags : Deliver(m)

SpecDispatch == InitDispatch /\ [][NextDispatch]_vars

\* a sudo line with an invalid byte inside the literal
BrokenLine == <<"s", "ff", "u", NL>>

\* Lines of every kind: the log starts empty, stays in place and, once the
\* loop runs, receives lines with the sudo literal, the system-auth
\* literal, both, or neither.
InitLines ==
    InitWith(FileWith(<<>>), [app |-> MaxAppends, rot |-> 0, trunc |-> 0,
                              other |-> 0])

NextLines ==
    \/ Tailing
    \/ Started /\ \E c \in {SudoLine, SystemLine, BothLine, JunkLine,
                            BrokenLine} : WriterAppend(c)

SpecLines == InitLines /\ [][NextLines]_vars

(***************************************************************************)
(* Properties.                                                             *)
(* lastLine holds the line the inner loop handled last in the current      *)
(* append branch: its bytes, the patterns it matched (hit), the alert      *)
(* lines it printed per pattern (fired) and, per pattern, the times of all *)
(* add() calls since that pattern last printed, this line's included       *)
(* (seen): what a tracker would hold if nothing were ever pruned.          *)
(***************************************************************************)
\* the time the last line was handled
LineTime(a) == lastLine.seen[a][Len(lastLine.seen[a])]

\* the occurrences of pattern a, this line's included, that lie within the
\* window at the time the last line was handled
InWindow(a) ==
    {i \in 1..Len(lastLine.seen[a]) : Fresh(lastLine.seen[a][i], LineTime(a))}

\* C1 (threshold edge).  For each pattern: when a matching line is handled
\* and every matching line since the pattern last printed lies within the
\* 300 s window, then with fewer than 3 such lines (1 or 2) the line prints
\* no alert, and with 3 it prints exactly one alert for that pattern.
C1_ThresholdEdge ==
    \A a \in Auth :
        (a \in lastLine.hit
            /\ Cardinality(InWindow(a)) = Len(lastLine.seen[a]))
        => /\ Len(lastLine.seen[a]) < Threshold => lastLine.fired[a] = 0
           /\ Len(lastLine.seen[a]) >= Threshold => lastLine.fired[a] = 1

\* every byte of every file was returned by read_until at most once
NoByteTwice ==
    \A i \in Inodes : \A k \in 1..Len(nscan[i]) : nscan[i][k].n <= 1

\* three lines of the file, each read once, all within the window: the
\* third one has just printed the first sudo alert
C1_Witness ==
    /\ "Sudo" \in lastLine.hit
    /\ Len(lastLine.seen["Sudo"]) = Threshold
    /\ Cardinality(InWindow("Sudo")) = Threshold
    /\ lastLine.seen["Sudo"][1] < LineTime("Sudo")
    /\ lastLine.fired["Sudo"] = 1
    /\ alerts["Sudo"] = 1
    /\ auth_time["Sudo"] = <<>>
    /\ NoByteTwice

\* C2 (window correctness), as claimed.  For each pattern: when matching
\* lines were handled at times t1 < t2 < t3 with no alert in between and
\* t3 - t1 > 300 s, the occurrence at t1 is not counted at the threshold
\* check made for the line at t3, so that line prints no alert.
C2_PruneBeforeCheck ==
    \A a \in Auth :
        (/\ a \in lastLine.hit
         /\ Len(lastLine.seen[a]) = 3
         /\ lastLine.seen[a][1] < lastLine.seen[a][2]
         /\ lastLine.seen[a][2] < lastLine.seen[a][3]
         /\ ~Fresh(lastLine.seen[a][1], lastLine.seen[a][3]))
        => lastLine.fired[a] = 0

\* no line of the file was handed to the patterns in two pieces: where a
\* returned line ended before the newline, the byte after it was not
\* returned
NoLineInPieces ==
    \A i \in Inodes : \A k \in 1..(Len(nscan[i]) - 1) :
        (nscan[i][k].end /\ ino[i].data[k] # NL) => nscan[i][k + 1].n = 0

\* C3 (no double-count), as claimed.  With the log in place and only
\* appended to while the loop runs: no byte of the file is returned by
\* read_until twice, no line of the file is matched in two pieces, and
\* once every event is handled every byte was returned exactly once.
C3_ExactlyOnce ==
    /\ NoByteTwice
    /\ NoLineInPieces
    /\ Quiescent => \A k \in 1..Len(nscan[1]) : nscan[1][k].n = 1

\* the kernel holds a file watch with descriptor wd
Watched(wd) == \E w \in kwatch : w.wd = wd

\* C4 (rotation reset), as claimed.  Whenever a CREATE event of the watched
\* name is taken up, whatever the offset: the handler goes on to add_watch
\* with the offset 0 and the old file watch removed, and add_watch leaves
\* the loop waiting with the offset 0 and a file watch registered on the
\* file at the path, so that the next read starts at byte 0.
C4_RotationReset ==
    [][/\ EvCreate => (pc' = "add_watch" /\ pos' = 0 /\ ~Watched(file_watch)')
       /\ AddWatch => (/\ pc' = "wait"
                       /\ pos' = 0
                       /\ [wd |-> file_watch', ino |-> PathIno] \in kwatch')]_vars

\* C5 (rotation survival), as claimed.  However a rotation by rename or by
\* unlink, then create, interleaves with the handling of queued events: the
\* process does not end, it keeps the directory watch, and once every event
\* is handled and the (empty) replacement is in place, the file watch held
\* is registered on the replacement and the offset is 0.
C5_RotationSurvival ==
    /\ pc # "failed"
    /\ Started => dirw
    /\ (Quiescent /\ PathIno > 1 /\ ino[PathIno].data = <<>>)
       => (pos = 0 /\ [wd |-> file_watch, ino |-> PathIno] \in kwatch)

\* C6 (truncation), as claimed.  When an append branch runs with the stored
\* offset above the measured size, the reader is not positioned past the
\* end of the file, and by the time the offset is set the bytes 0..size of
\* the file were all read (the offset was taken as 0).
C6_Truncation ==
    (pc \in {"read", "set_pos"} /\ pos > mlen)
    => /\ rpos <= Len(ino[fd].data)
       /\ pc = "set_pos" =>
              \A k \in 1..mlen : k <= Len(nscan[fd]) => nscan[fd][k].n >= 1

\* C7 (missing target at startup), as claimed.  Startup does not fail on a
\* missing file: with the path absent when the file watch would be added,
\* the loop is entered with the offset 0, the directory watch and no file
\* watch.
C7_MissingAtStartup ==
    [][(pc = "watch_file" /\ PathIno = 0 /\ pc' # pc)
       => (pc' = "wait" /\ pos' = 0 /\ dirw' /\ kwatch' = {})]_vars

\* C8 (no read on MOVE_SELF or IGNORED), as claimed.  The append branch
\* (metadata, open, read, set_pos) never runs for an event that carries
\* MOVE_SELF or IGNORED.
C8_NoReadOnInvalidated ==
    pc \in {"open", "read", "set_pos"}
    => event.mask \cap {"MOVE_SELF", "IGNORED"} = {}

\* C9 (end to end), as claimed.  In the end-to-end scenario the sudo alert
\* is printed at most once, and exactly once by the time every line is
\* appended and every event handled; no system-auth alert is printed and
\* the system-auth tracker stays empty.
C9_EndToEnd ==
    /\ alerts["Sudo"] <= 1
    /\ alerts["System"] = 0
    /\ auth_time["System"] = <<>>
    /\ (Quiescent /\ budget.app = 0) => alerts["Sudo"] = 1

\* C10 (offset monotonicity), as claimed.  With the log only appended to
\* and rotated, the offset decreases in no step but the handling of a
\* CREATE event of the watched name, which makes it 0.
C10_OffsetMonotone ==
    [][pos' < pos => (EvCreate /\ pos' = 0)]_vars

\* C11 (startup offset).  The startup probe sets the offset to the size of
\* the file when the file exists and to 0 when it does not; and as long as
\* the file that was there at startup stays in place, none of the bytes it
\* held at startup is ever returned by read_until (so none is matched or
\* recorded).
C11_StartupOffset ==
    /\ [][(pc \in {"start", "probe"} /\ pc' \notin {"start", "probe"})
          => pos' = IF PathIno # 0 THEN Len(ino[PathIno].data) ELSE 0]_vars
    /\ [](\A k \in 1..old : nscan[PathIno][k].n = 0)

\* the log held a line at startup, a line was appended and has just been
\* read and recorded, and the line of startup was not read
C11_Witness ==
    /\ pc = "read"
    /\ old = Len(SudoLine)
    /\ Len(ino[fd].data) > old
    /\ nscan[fd][old].n = 0
    /\ nscan[fd][old + 1].n = 1
    /\ lastLine.hit # {}
    /\ \E a \in Auth : Len(auth_time[a]) = 1

\* C12 (watch resource discipline).  In every state of the loop the
\* directory watch is registered and at most one file watch is, the one
\* whose descriptor the program holds; the handler of a rotation registers
\* the new file watch only after the old one is removed, so that the number
\* of watches is the same after every rotation.
C12_WatchDiscipline ==
    (Started /\ Running)
    => /\ dirw
       /\ Cardinality(kwatch) <= 1
       /\ \A w \in kwatch : w.wd = file_watch
       /\ pc = "add_watch" => kwatch = {}

\* the second rotation is handled: the third file watch of the run is
\* registered, on the third file, and it is the only one
C12_Witness ==
    /\ pc = "wait"
    /\ budget.rot = 0
    /\ file_watch = DirWd + 3
    /\ kwatch = {[wd |-> file_watch, ino |-> PathIno]}
    /\ dirw

\* the call the program is about to make returns an Err: the path is absent
\* for add_watch, metadata or open, or the kernel does not know the
\* descriptor given to rm_watch
CallFails ==
    \/ pc \in {"probe", "watch_file", "add_watch", "open"} /\ PathIno = 0
    \/ /\ pc = "wait"
       /\ ubuf # <<>>
       /\ IF Head(ubuf).name = File
          THEN /\ "MOVED_FROM" \notin Head(ubuf).mask
               /\ "CREATE" \in Head(ubuf).mask
               /\ ~Watched(file_watch)
          ELSE "MOVE_SELF" \notin Head(ubuf).mask /\ PathIno = 0

\* C13 (fatal I/O).  A step of the program in which metadata, open, seek or
\* read_until on the log, add_watch or rm_watch fails ends the process with
\* that error, leaving the offset, the alerts printed and the trackers as
\* they were; and once the process has ended with an error no step of the
\* program is possible and no event is left to it.
C13_FatalIO ==
    /\ [][((Program /\ CallFails) \/ ReadError)
          => /\ pc' = "failed"
             /\ failed' # ""
             /\ pos' = pos
             /\ alerts' = alerts
             /\ auth_time' = auth_time]_vars
    /\ [](pc = "failed"
          => /\ failed # ""
             /\ ubuf = <<>>
             /\ kq = <<>>
             /\ ~ENABLED (Program \/ ReadError))

\* read_until failed after a line was read and recorded: the process has
\* ended, the offset is the one from before the read
C13_Witness ==
    /\ pc = "failed"
    /\ failed = "read_until"
    /\ rpos > pos
    /\ \E a \in Auth : auth_time[a] # <<>>

\* C14 (hard reset on alert).  For each pattern: right after a line printed
\* the pattern's alert the pattern's tracker is empty, and add() was called
\* at least 3 times for the pattern since its previous alert (or since
\* startup); and whenever the loop waits for the next event each tracker
\* holds at most 2 timestamps.
C14_HardReset ==
    \A a \in Auth :
        /\ lastLine.fired[a] = 1
           => (auth_time[a] = <<>> /\ Len(lastLine.seen[a]) >= Threshold)
        /\ pc = "wait" => Len(auth_time[a]) <= Threshold - 1

\* the second sudo alert of the run has just been printed
C14_Witness ==
    /\ pc = "read"
    /\ lastLine.fired["Sudo"] = 1
    /\ alerts["Sudo"] = 2
    /\ auth_time["Sudo"] = <<>>
    /\ Len(lastLine.seen["Sudo"]) >= Threshold

\* C15 (append branch for file events only), as claimed.  The append branch
\* (metadata, open, read, set_pos) runs only for an event delivered by the
\* file watch: never for an event of the directory watch, such as the
\* creation of a file with another name.
C15_FileEventsOnly ==
    pc \in {"open", "read", "set_pos"} => event.wd # DirWd

\* every byte of the file at the path was returned by read_until
AllRead ==
    PathIno # 0 /\ \A k \in 1..Len(nscan[PathIno]) : nscan[PathIno][k].n >= 1

\* the replacement is in place and nothing more is written or rotated
Rotated == PathIno > 1 /\ budget.app = 0 /\ budget.rot = 0

\* C16 (replacement file eventually read), as claimed.  Once the log is
\* rotated and the writes have ended, every line of the replacement is
\* eventually read and matched, those written before the file watch was
\* registered again included.
C16_ReplacementRead == Rotated ~> AllRead

\* the same, for the runs in which the process does not end on the
\* rotation: rm_watch queues IGNORED for the old watch, and that event runs
\* the append branch on the replacement once the new watch is registered
ReadUnlessEnded == Rotated ~> (AllRead \/ pc = "failed")

\* C17 (MOVED_FROM is a no-op).  Taking up an event that names the watched
\* file and carries MOVED_FROM, with or without CREATE, only consumes the
\* event: the offset, the file watch held, the watches registered, both
\* trackers and the alerts printed are unchanged, no file is opened and the
\* loop goes on to the next event.
C17_MovedFromNoOp ==
    [][(/\ pc = "wait"
        /\ ubuf # <<>>
        /\ Head(ubuf).name = File
        /\ "MOVED_FROM" \in Head(ubuf).mask
        /\ ubuf' # ubuf)
       => /\ ubuf' = Tail(ubuf)
          /\ pc' = "wait"
          /\ pos' = pos
          /\ file_watch' = file_watch
          /\ kwatch' = kwatch
          /\ auth_time' = auth_time
          /\ alerts' = alerts
          /\ fd' = 0
          /\ failed' = ""]_vars

\* an event carrying both MOVED_FROM and CREATE is first in the buffer
\* while the offset is not 0 and a tracker is not empty
C17_Witness ==
    /\ pc = "wait"
    /\ ubuf # <<>>
    /\ Head(ubuf) = [wd |-> DirWd, mask |-> {"MOVED_FROM", "CREATE"},
                     name |-> File]
    /\ pos > 0
    /\ auth_time["Sudo"] # <<>>

\* C18 (offset validity), as claimed.  With the log in place, appended to
\* and truncated: every value assigned to the offset is 0 or the size
\* measured in the same iteration (or at startup), and at the moment it is
\* assigned it does not exceed the size the file has then.
C18_OffsetValid ==
    [][pos' # pos
       => /\ (pc = "probe" \/ pos' = 0 \/ pos' = mlen)
          /\ pos' <= Len(ino'[PathIno'].data)]_vars

\* new is old with some entries left out, the others in their order
KeepsOrder(old_, new) ==
    \E f \in [1..Len(new) -> 1..Len(old_)] :
        /\ \A i \in 1..Len(new) : new[i] = old_[f[i]]
        /\ \A i, j \in 1..Len(new) : i < j => f[i] < f[j]

\* C19 (prune).  When the clean-up that ends an append branch completes,
\* for each tracker: every timestamp left is at most 300 s old, as many
\* timestamps are left as were at most 300 s old before (none of those is
\* dropped), and those left are in the order they were inserted in.
C19_Prune ==
    [][(pc = "set_pos" /\ pc' = "wait")
       => \A a \in Auth :
              /\ \A i \in 1..Len(auth_time'[a]) :
                     now - auth_time'[a][i] <= WindowSecs
              /\ Len(auth_time'[a]) =
                     Cardinality({i \in 1..Len(auth_time[a]) :
                                     now - auth_time[a][i] <= WindowSecs})
              /\ KeepsOrder(auth_time[a], auth_time'[a])]_vars

\* the clean-up has just dropped the first of two sudo timestamps, more
\* than 300 s old, and kept the second
C19_Witness ==
    /\ pc = "wait"
    /\ Len(seen["Sudo"]) = 2
    /\ now - seen["Sudo"][1] > WindowSecs
    /\ auth_time["Sudo"] = <<seen["Sudo"][2]>>
    /\ alerts["Sudo"] = 0

\* C20 (tracker independence).  For each line the inner loop handles and
\* each pattern: when the pattern's literal is a substring of the line's
\* bytes, one occurrence is recorded in the pattern's tracker (pushed, or
\* pushed as the third and cleared with one alert of that pattern); when it
\* is not, the pattern's tracker and alert count are unchanged.  So a line
\* with one literal touches one tracker and a line with both touches both.
C20_Independence ==
    [][(pc = "read" /\ rpos' # rpos)
       => LET line == ReadUntil(ino[fd].data, rpos)
          IN  \A a \in Auth :
                  IF Contains(line, Message(a))
                  THEN \/ /\ auth_time'[a] = Append(auth_time[a], now)
                          /\ alerts'[a] = alerts[a]
                       \/ /\ Len(auth_time[a]) = Threshold - 1
                          /\ auth_time'[a] = <<>>
                          /\ alerts'[a] = alerts[a] + 1
                  ELSE /\ auth_time'[a] = auth_time[a]
                       /\ alerts'[a] = alerts[a]]_vars

\* a line with the sudo literal only was handled, then one with both
\* literals: two sudo occurrences, one system-auth occurrence
C20_Witness ==
    /\ pc = "read"
    /\ lastLine.line = BothLine
    /\ lastLine.hit = Auth
    /\ Len(auth_time["Sudo"]) = 2
    /\ Len(auth_time["System"]) = 1
    /\ NoByteTwice

====
